---------------------------- MODULE Spec2Model ----------------------------
(***************************************************************************)
(* Model of ecosystem.config.js: a CommonJS module whose body is the       *)
(* single statement `module.exports = { apps: [ {...}, {...} ] }`.         *)
(*                                                                         *)
(* JavaScript values are modelled with their type tag, so that "is a       *)
(* string" is a property of the value and not of the notation.  A          *)
(* JavaScript object is a function from its own property keys to values;   *)
(* an array is a sequence.                                                 *)
(*                                                                         *)
(* The state machine is the life of the module inside the runtime that     *)
(* consumes it: the module is required (its body is evaluated on the       *)
(* first require and the cached exports are handed out afterwards), and    *)
(* the consumer reads properties of the exported entries.                  *)
(***************************************************************************)
EXTENDS Naturals, Sequences, FiniteSets

VARIABLES loaded, exports, requires, view

vars == <<loaded, exports, requires, view>>

\* How many times the consumer may require the module in a run.
MaxRequires == 3

---------------------------------------------------------------------------
\* JavaScript values

Str(s) == [type |-> "string", val |-> s]

Arr(s) == [type |-> "array", val |-> s]

Undefined == [type |-> "undefined", val |-> ""]

\* The value of module.exports before the module body has run: {}.
EmptyObject == [k \in {} |-> Undefined]

\* obj[key] as JavaScript evaluates it: the own property, or undefined.
Get(obj, key) == IF key \in DOMAIN obj THEN obj[key] ELSE Undefined

---------------------------------------------------------------------------
\* The object literals of the module body

\* (mutations of the first entry, used to test the claims)
AppHubNoScript ==
  [name |-> Str("wiigii-hub"), interpreter |-> Str("python")]

AppHubExtraField ==
  [name |-> Str("wiigii-hub"), script |-> Str("./app.py"),
   interpreter |-> Str("python"), cwd |-> Str(".")]

AppHub ==
  [name        |-> Str("wiigii-hub"),
   script      |-> Str("./app.py"),
   interpreter |-> Str("python")]

\* (mutations of the second entry, used to test the claims)
AppTunnelSameName ==
  [name |-> Str("wiigii-hub"), script |-> Str("./cloudflared.exe"),
   args |-> Str("tunnel --url http://127.0.0.1:5000"),
   interpreter |-> Str("none")]

AppTunnelArgsArray ==
  [name |-> Str("wiigii-tunnel"), script |-> Str("./cloudflared.exe"),
   args |-> Arr(<<"tunnel", "--url", "http://127.0.0.1:5000">>),
   interpreter |-> Str("none")]

AppTunnel ==
  [name        |-> Str("wiigii-tunnel"),
   script      |-> Str("./cloudflared.exe"),
   args        |-> Str("tunnel --url http://127.0.0.1:5000"),
   interpreter |-> Str("none")]

\* (mutation of the exported object: a third entry)
ModuleBodyThreeApps ==
  [apps |-> <<AppHub, AppTunnel,
              [name |-> Str("wiigii-worker"), script |-> Str("./worker.py"),
               interpreter |-> Str("python")]>>]

\* The value the module body assigns to module.exports.
ModuleBody == [apps |-> <<AppHub, AppTunnel>>]

\* The list a consumer finds under exports.apps (none before the body ran).
AppsOf(e) == IF "apps" \in DOMAIN e THEN e.apps ELSE << >>

\* The property keys a consumer of an entry asks for.
AppEntryFields == {"name", "script", "args", "interpreter"}

---------------------------------------------------------------------------
\* The state machine

Init ==
  /\ loaded = FALSE
  /\ exports = EmptyObject
  /\ requires = 0
  /\ view = {}

\* require("./ecosystem.config.js"): the first call evaluates the module
\* body, which assigns module.exports; later calls return the cached exports.
Require ==
  /\ requires < MaxRequires
  /\ IF ~loaded
       THEN /\ loaded' = TRUE
            /\ exports' = ModuleBody
       ELSE UNCHANGED <<loaded, exports>>
  /\ requires' = requires + 1
  /\ UNCHANGED view

\* (mutation of Read: a consumer that takes the property out of the entry)
ReadAndDelete(i, k) ==
  /\ requires > 0
  /\ i \in 1..Len(AppsOf(exports))
  /\ <<i, k, Get(exports.apps[i], k)>> \notin view
  /\ view' = view \cup {<<i, k, Get(exports.apps[i], k)>>}
  /\ exports' = [exports EXCEPT
                   !.apps[i] = [f \in (DOMAIN @) \ {k} |-> @[f]]]
  /\ UNCHANGED <<loaded, requires>>

\* The consumer, holding the exports, reads apps[i][k].
Read(i, k) ==
  /\ requires > 0
  /\ i \in 1..Len(AppsOf(exports))
  /\ <<i, k, Get(exports.apps[i], k)>> \notin view
  /\ view' = view \cup {<<i, k, Get(exports.apps[i], k)>>}
  /\ UNCHANGED <<loaded, exports, requires>>

Next ==
  \/ Require
  \/ \E i \in 1..Len(AppsOf(exports)), k \in AppEntryFields : Read(i, k)

Spec == Init /\ [][Next]_vars

---------------------------------------------------------------------------
\* Properties of the exported list

IsString(v) == v.type = "string"

IsNonEmptyString(v) == IsString(v) /\ v.val # ""

\* The AppEntry record: name, script and interpreter are strings, args is
\* the only other field an entry may carry.
IsAppEntry(e) ==
  /\ DOMAIN e \subseteq AppEntryFields
  /\ {"name", "script", "interpreter"} \subseteq DOMAIN e
  /\ \A f \in {"name", "script", "interpreter"} : IsString(e[f])

\* C1: once the module is loaded, the exported apps list has exactly two
\* entries: the hub application first, the tunneling client second.
C1_ExactlyTwoEntries ==
  loaded =>
    /\ Len(AppsOf(exports)) = 2
    /\ Get(exports.apps[1], "name") = Str("wiigii-hub")
    /\ Get(exports.apps[2], "name") = Str("wiigii-tunnel")

C1_Witness == loaded /\ requires = 1 /\ view = {}

\* C2: every entry's name is a non-empty string, and two distinct entries
\* of the list never carry the same name.
C2_NamesUniqueNonEmpty ==
  loaded =>
    /\ \A i \in 1..Len(exports.apps) :
         IsNonEmptyString(Get(exports.apps[i], "name"))
    /\ \A i, j \in 1..Len(exports.apps) :
         i # j => Get(exports.apps[i], "name") # Get(exports.apps[j], "name")

C2_Witness ==
  /\ <<1, "name", Str("wiigii-hub")>> \in view
  /\ <<2, "name", Str("wiigii-tunnel")>> \in view

\* C3: every entry has a script field, and it is a non-empty string.
C3_ScriptNonEmpty ==
  loaded =>
    \A i \in 1..Len(exports.apps) :
      /\ "script" \in DOMAIN exports.apps[i]
      /\ IsNonEmptyString(exports.apps[i].script)

C3_Witness ==
  /\ <<1, "script", Str("./app.py")>> \in view
  /\ <<2, "script", Str("./cloudflared.exe")>> \in view

\* C5: the list is static.  A step from a state in which the module is
\* loaded leaves the module loaded and its exports as they were, and every
\* loaded state holds the list the module body authored.
C5_StaticAfterLoad ==
  [][ /\ loaded => (loaded' /\ exports' = exports)
      /\ loaded' => exports' = ModuleBody ]_vars

C5_Witness == loaded /\ requires = MaxRequires /\ Cardinality(view) >= 2

\* C6: args is optional.  Every entry either has no args field (the hub
\* entry) or has a string there (the tunnel entry), and an entry without
\* args is still a complete AppEntry.
C6_ArgsOptionalString ==
  loaded =>
    /\ \A i \in 1..Len(exports.apps) :
         /\ "args" \in DOMAIN exports.apps[i] => IsString(exports.apps[i].args)
         /\ "args" \notin DOMAIN exports.apps[i] => IsAppEntry(exports.apps[i])
    /\ Len(exports.apps) >= 2
    /\ "args" \notin DOMAIN exports.apps[1]
    /\ "args" \in DOMAIN exports.apps[2]

C6_Witness ==
  /\ <<1, "args", Undefined>> \in view
  /\ <<2, "args", Str("tunnel --url http://127.0.0.1:5000")>> \in view

\* C7: every entry is a well-formed AppEntry: its fields are among name,
\* script, args and interpreter; name, script and interpreter are there,
\* and each of the three is a string.
C7_WellFormedEntries ==
  loaded => \A i \in 1..Len(exports.apps) : IsAppEntry(exports.apps[i])

C7_Witness == Cardinality(view) = 2 * Cardinality(AppEntryFields)

=============================================================================
